---- MODULE Spec2Model ----
(***************************************************************************)
(* A model of curator's Reindex action (curator/actions/reindex.py): the   *)
(* construction of the action from an IndexList and a request body, the    *)
(* expansion of the body into (source, dest) pairs, the dry run and the    *)
(* dispatch loop of do_action with its wait and its post-run check.        *)
(* A second specification, SpecSchema, models SchemaCheck.result           *)
(* (curator/validators/schemacheck.py) and its search for the bad value.   *)
(*                                                                         *)
(* Python values that are either a string or a list are tagged records:    *)
(*   [kind |-> "str",  val |-> <<s>>]   the string s                       *)
(*   [kind |-> "list", val |-> q]       a list object owned by the body    *)
(*   [kind |-> "ilo",  val |-> <<>>]    a reference to the list object     *)
(*                                      IndexList.indices (line 129 stores *)
(*                                      the reference, not a copy)         *)
(***************************************************************************)
EXTENDS Integers, Sequences, FiniteSets, TLC

\* ---------------------------------------------------------------- bounds
\* Longest literal source.index list the request may carry.
MaxLen == 2
\* Number of do_action / do_dry_run calls made on one instance.
MaxRuns == 2
\* The finite max_wait budget tried (seconds), besides -1.
MaxWait == 2
\* Longest error path of a schema error, and the depth of the configurations
\* validated.
MaxPath == 2

\* ------------------------------------------------------------- constants
REINDEX_SELECTION == "REINDEX_SELECTION"
REINDEX_SELECTED == "REINDEX_SELECTED"
MIGRATION == "MIGRATION"
ReindexTaskAction == "indices:data/write/reindex"
\* get_processed_items' value when the count is not found (line 252).
NotFound == -1
\* max_wait's "wait forever" (line 17, line 99).
Forever == -1

\* Index names on the cluster, and the names a literal source may carry.
IdxNames == {"a", "b"}
SrcNames == IdxNames \cup {REINDEX_SELECTED}
DestNames == {MIGRATION, "z"}
Prefixes == {"", "p-"}
Suffixes == {"", "-s"}

\* --------------------------------------------------------------- values
Str(s) == [kind |-> "str", val |-> <<s>>]
Lst(q) == [kind |-> "list", val |-> q]
IloRef == [kind |-> "ilo", val |-> <<>>]

SeqsUpTo(S, n) == UNION {[1..k -> S] : k \in 0..n}
NoDup(q) == \A i, j \in 1..Len(q) : q[i] = q[j] => i = j
\* An IndexList's indices: unique names.
IndexLists == {q \in SeqsUpTo(IdxNames, Cardinality(IdxNames)) : NoDup(q)}
\* What a caller may write as source.index.
SourceChoices ==
  {Str(s) : s \in SrcNames \cup {REINDEX_SELECTION}}
    \cup {Lst(q) : q \in SeqsUpTo(SrcNames, MaxLen)}
\* 'remote' under source: absent, present without 'host', present with a
\* 'host'.
RemoteChoices == {"absent", "nohost", "host"}
\* (wait_for_completion, max_wait): max_wait is read only when waiting.
WaitChoices ==
  {[wfc |-> FALSE, max_wait |-> Forever],
   [wfc |-> TRUE, max_wait |-> Forever],
   [wfc |-> TRUE, max_wait |-> MaxWait]}

NoCluster == [index |-> FALSE, alias |-> FALSE]
NoRemoteEnv == [tried |-> FALSE, conn_ok |-> FALSE, fetch_ok |-> FALSE, rio |-> <<>>]
NoResult == [kind |-> "none", msg |-> ""]
\* No SchemaCheck is at work.
NoSchemaCheck == [pc |-> "none"]
NoTaskData == [fetched |-> FALSE, action |-> "", has_response |-> FALSE, total |-> 0]
TaskPayloads ==
  {[fetched |-> TRUE, action |-> a, has_response |-> FALSE, total |-> 0] :
      a \in {ReindexTaskAction, "other"}}
    \cup {[fetched |-> TRUE, action |-> a, has_response |-> TRUE, total |-> t] :
      a \in {ReindexTaskAction, "other"}, t \in {0, 5}}

VARIABLES
  pc,            \* "new" | "failed" | "ready" | "dispatch" | "wait" | "check"
  ilo_indices,   \* IndexList.indices, the list object the caller filters
  body,          \* self.body (the caller's request_body object)
  opt,           \* the scalar options stored by __init__
  remote,        \* self.remote
  migration,     \* self.migration
  gen,           \* the pairs the running sources() generator has yet to yield
  task_status,   \* the status payload the cluster holds for the current task
  task_data,     \* what client.tasks.get returned to get_processed_items
  processed,     \* the count the last get_processed_items returned
  cluster,       \* whether dest exists on the cluster as index / as alias
  elapsed,       \* seconds the task waiter has waited for the current task
  calls,         \* client calls of the current do_action, in order
  rconn,         \* remote connections built so far
  result,        \* how the last operation ended
  lastop,        \* the last operation started
  runs,          \* do_action / do_dry_run calls so far
  dry,           \* the pairs the last do_dry_run logged
  orig_source,   \* source.index as the caller passed it
  ilo_at_init,   \* IndexList.indices when __init__ ran
  renv,          \* what the remote cluster did when __init__ turned to it
  expanded,      \* the pairs sources() held for the current do_action
  sc             \* the SchemaCheck object and what its result() did

vars == <<pc, ilo_indices, body, opt, remote, migration, gen, task_status, task_data,
          processed, cluster, elapsed, calls, rconn, result, lastop, runs,
          dry, orig_source, ilo_at_init, renv, expanded, sc>>

\* ------------------------------------------------------ pure operators
\* The object a stored source.index refers to, as a value.
Deref(v) == IF v.kind = "ilo" THEN Lst(ilo_indices) ELSE v

\* es_client.helpers.utils.ensure_list: a non-list becomes a one-element list.
ensure_list(data) == IF data.kind # "list" THEN <<data.val[1]>> ELSE data.val

IsSelection(v) == v.kind = "str" /\ v.val[1] = REINDEX_SELECTION

Init ==
  /\ pc = "new"
  /\ \E s \in SourceChoices, d \in DestNames, r \in RemoteChoices :
       /\ body = [source |-> [index |-> s, remote |-> r], dest |-> [index |-> d]]
       \* __init__ reads ilo.indices only at line 129: the other requests
       \* are given one IndexList, the empty one.
       /\ ilo_indices \in IF IsSelection(s) /\ r = "absent" THEN IndexLists ELSE {<<>>}
  \* migration_prefix and migration_suffix are read only in migration mode:
  \* the other requests are given the defaults (line 19).
  /\ \E w \in WaitChoices :
     \E p \in IF body.dest.index = MIGRATION THEN Prefixes ELSE {""} :
     \E x \in IF body.dest.index = MIGRATION THEN Suffixes ELSE {""} :
       opt = [wfc |-> w.wfc, max_wait |-> w.max_wait, wait_interval |-> 1,
              mpfx |-> p, msfx |-> x]
  /\ remote = FALSE
  /\ migration = FALSE
  /\ gen = <<>>
  /\ task_status = NoTaskData
  /\ task_data = NoTaskData
  /\ processed = NotFound
  /\ cluster = NoCluster
  /\ elapsed = 0
  /\ calls = <<>>
  /\ rconn = 0
  /\ result = NoResult
  /\ lastop = "none"
  /\ runs = 0
  /\ dry = <<>>
  /\ orig_source = body.source.index
  /\ ilo_at_init = ilo_indices
  /\ renv = NoRemoteEnv
  /\ expanded = <<>>
  /\ sc = NoSchemaCheck

\* ------------------------------------------------------------- __init__
\* self.remote: 'remote' is a key of body['source'].
init_remote(b) == b.source.remote # "absent"

\* self.migration: dest.index is the MIGRATION token.
init_migration(b) == b.dest.index = MIGRATION

\* Mutant of migration_unnamed: the "not" before self.remote is lost.
migration_unnamed_if_remote(mig, rem, pfx, sfx) == mig /\ rem /\ pfx = "" /\ sfx = ""

\* Mutant of migration_unnamed: the test of lines 117-122 is left out.
migration_unnamed_never(mig, rem, pfx, sfx) == FALSE

\* MIGRATION used locally with neither migration_prefix nor migration_suffix.
migration_unnamed(mig, rem, pfx, sfx) == mig /\ ~rem /\ pfx = "" /\ sfx = ""

Failure(kind, msg) == [kind |-> kind, msg |-> msg]

InitFails(kind, msg) ==
  /\ pc' = "failed"
  /\ result' = Failure(kind, msg)
  /\ UNCHANGED <<body, rconn, renv>>

\* Mutant of InitSucceeds: the request body is stored as it was passed.
InitSucceedsWithTokenLeft(b, conns) ==
  /\ pc' = "ready"
  /\ result' = NoResult
  /\ body' = body
  /\ rconn' = rconn + conns
  /\ IF conns = 0 THEN UNCHANGED renv ELSE TRUE

InitSucceeds(b, conns) ==
  /\ pc' = "ready"
  /\ result' = NoResult
  /\ body' = b
  /\ rconn' = rconn + conns
  /\ IF conns = 0 THEN UNCHANGED renv ELSE TRUE

\* Mutant of remote_selection_error: the NoIndices of the empty remote
\* selection leaves __init__ as it is.
remote_selection_error_raw(conn_ok, fetch_ok, rio) ==
  IF ~conn_ok \/ ~fetch_ok THEN "FailedExecution"
  ELSE IF rio = <<>> THEN "NoIndices"
  ELSE "none"

\* The exception the two try blocks of the remote selection end in ("none":
\* they end normally): a connection that cannot be built, indices that cannot
\* be fetched or filtered, and an empty selection all go to report_failure.
remote_selection_error(conn_ok, fetch_ok, rio) ==
  IF ~conn_ok \/ ~fetch_ok \/ rio = <<>> THEN "FailedExecution" ELSE "none"

\* The remote section once 'host' is there: the URL is verified, and for
\* REINDEX_SELECTION a second connection is built and its filtered indices
\* are stored.
InitRemoteWithHost ==
  \E url_ok \in BOOLEAN :
    IF ~url_ok
    THEN InitFails("ConfigurationError", "bad url schema")
    ELSE IF ~IsSelection(body.source.index)
    THEN InitSucceeds(body, 0)
    ELSE \E conn_ok \in BOOLEAN, fetch_ok \in BOOLEAN, rio \in IndexLists :
      /\ renv' = [tried |-> TRUE, conn_ok |-> conn_ok, fetch_ok |-> fetch_ok,
                  rio |-> rio]
      /\ IF remote_selection_error(conn_ok, fetch_ok, rio) # "none"
         THEN /\ pc' = "failed"
              /\ result' = Failure(remote_selection_error(conn_ok, fetch_ok, rio),
                                   "remote")
              /\ rconn' = rconn + 1
              /\ UNCHANGED body
         ELSE InitSucceeds([body EXCEPT !.source.index = Lst(rio)], 1)

\* Mutant of InitRemote: 'host' is looked for after the remote selection.
InitRemoteChecksHostLate ==
  IF body.source.remote = "nohost"
  THEN /\ pc' = "failed"
       /\ result' = Failure("ConfigurationError", "Missing remote host")
       /\ rconn' = rconn + (IF IsSelection(body.source.index) THEN 1 ELSE 0)
       /\ UNCHANGED <<body, renv>>
  ELSE InitRemoteWithHost

\* The remote section: without 'host' it ends before anything else is done.
InitRemote ==
  IF body.source.remote = "nohost"
  THEN InitFails("ConfigurationError", "Missing remote host")
  ELSE InitRemoteWithHost

\* Reindex.__init__(ilo, request_body, ...).
Construct ==
  /\ pc = "new"
  /\ remote' = init_remote(body)
  /\ migration' = init_migration(body)
  /\ lastop' = "init"
  /\ ilo_at_init' = ilo_indices
  /\ IF migration_unnamed(migration', remote', opt.mpfx, opt.msfx)
     THEN InitFails("ConfigurationError", "MIGRATION needs prefix or suffix")
     ELSE IF IsSelection(body.source.index) /\ ~remote'
     THEN InitSucceeds([body EXCEPT !.source.index = IloRef], 0)
     ELSE IF remote'
     THEN InitRemote
     ELSE InitSucceeds(body, 0)
  /\ UNCHANGED <<ilo_indices, opt, gen, task_status, task_data, processed,
                 cluster, elapsed, calls, runs, dry, orig_source, expanded>>
  /\ UNCHANGED sc

\* ------------------------------------------------------------ IndexList
\* A filter of the IndexList removes one name from indices, in place.
RemoveAt(q, i) == [j \in 1..(Len(q) - 1) |-> IF j < i THEN q[j] ELSE q[j + 1]]

Filter ==
  /\ pc = "ready"
  /\ \E i \in 1..Len(ilo_indices) : ilo_indices' = RemoveAt(ilo_indices, i)
  /\ UNCHANGED <<pc, body, opt, remote, migration, gen, task_status, task_data,
                 processed, cluster, elapsed, calls, rconn, result, lastop,
                 runs, dry, orig_source, ilo_at_init, renv, expanded>>
  /\ UNCHANGED sc

\* -------------------------------------------------------------- sources
Pair(s, d) == [source |-> s, dest |-> d]

\* Mutant of sources: the migration destination leaves out the suffix.
sources_without_suffix(b, mig, pfx, sfx) ==
  LET dest == b.dest.index
      source_list == ensure_list(Deref(b.source.index))
  IN IF source_list = <<>> \/ source_list = <<REINDEX_SELECTED>>
     THEN [raised |-> TRUE, pairs |-> <<>>]
     ELSE IF ~mig
     THEN [raised |-> FALSE, pairs |-> <<Pair(b.source.index, dest)>>]
     ELSE [raised |-> FALSE,
           pairs |-> [i \in 1..Len(source_list) |->
                        Pair(Str(source_list[i]), pfx \o source_list[i])]]

\* Mutant of sources: every request is expanded source by source.
sources_always_expanded(b, mig, pfx, sfx) ==
  LET dest == b.dest.index
      source_list == ensure_list(Deref(b.source.index))
  IN IF source_list = <<>> \/ source_list = <<REINDEX_SELECTED>>
     THEN [raised |-> TRUE, pairs |-> <<>>]
     ELSE [raised |-> FALSE,
           pairs |-> [i \in 1..Len(source_list) |->
                        Pair(Str(source_list[i]),
                             IF mig THEN pfx \o source_list[i] \o sfx ELSE dest)]]

\* Mutant of sources: the empty list is not refused.
sources_without_empty_check(b, mig, pfx, sfx) ==
  LET dest == b.dest.index
      source_list == ensure_list(Deref(b.source.index))
  IN IF source_list = <<REINDEX_SELECTED>>
     THEN [raised |-> TRUE, pairs |-> <<>>]
     ELSE IF ~mig
     THEN [raised |-> FALSE, pairs |-> <<Pair(b.source.index, dest)>>]
     ELSE [raised |-> FALSE,
           pairs |-> [i \in 1..Len(source_list) |->
                        Pair(Str(source_list[i]), pfx \o source_list[i] \o sfx)]]

\* Reindex.sources(): what the generator raises or yields, in order.
sources(b, mig, pfx, sfx) ==
  LET dest == b.dest.index
      source_list == ensure_list(Deref(b.source.index))
  IN IF source_list = <<>> \/ source_list = <<REINDEX_SELECTED>>
     THEN [raised |-> TRUE, pairs |-> <<>>]
     ELSE IF ~mig
     THEN [raised |-> FALSE, pairs |-> <<Pair(b.source.index, dest)>>]
     ELSE [raised |-> FALSE,
           pairs |-> [i \in 1..Len(source_list) |->
                        Pair(Str(source_list[i]), pfx \o source_list[i] \o sfx)]]

\* A pair sequence with every source reference replaced by its value.
Resolved(pairs) == [i \in 1..Len(pairs) |-> Pair(Deref(pairs[i].source), pairs[i].dest)]

\* Mutant of body_after_request_body: the method edits self.body itself.
body_after_request_body_no_copy(b, source, dest) ==
  [b EXCEPT !.source.index = source, !.dest.index = dest]

\* self.body after Reindex._get_request_body(source, dest): the method edits
\* a deep copy, so self.body is as it was.
body_after_request_body(b, source, dest) == b

\* self.body after do_dry_run's loop has shown the run arguments of each pair.
RECURSIVE body_after_dry_run(_, _)
body_after_dry_run(b, pairs) ==
  IF pairs = <<>> THEN b
  ELSE body_after_dry_run(
         body_after_request_body(b, Head(pairs).source, Head(pairs).dest),
         Tail(pairs))

\* Reindex.do_dry_run().
DoDryRun ==
  /\ pc = "ready"
  /\ runs < MaxRuns
  /\ runs' = runs + 1
  /\ lastop' = "do_dry_run"
  /\ LET s == sources(body, migration, opt.mpfx, opt.msfx) IN
       /\ dry' = Resolved(s.pairs)
       /\ result' = IF s.raised THEN Failure("NoIndices", "") ELSE Failure("ok", "")
       /\ body' = body_after_dry_run(body, s.pairs)
  /\ UNCHANGED <<pc, ilo_indices, opt, remote, migration, gen, task_status,
                 task_data, processed, cluster, elapsed, calls, rconn,
                 orig_source, ilo_at_init, renv, expanded>>
  /\ UNCHANGED sc

\* ------------------------------------------------------------ do_action
\* Mutant of self_client: the connection built for the remote selection.
remote_client == "remote"

\* self.client, the client of the IndexList (line 72): the only client that
\* do_action and the methods it calls use.
self_client == "primary"

\* A call made through self.client.
Call(op, source, dest, wfc) ==
  [op |-> op, source |-> source, dest |-> dest, wait_for_completion |-> wfc,
   client |-> self_client]

\* Mutant of get_reindex_args: the action's own option goes on the wire.
get_reindex_args_own_wfc(source, dest) == Call("reindex", Deref(source), dest, opt.wfc)

\* Reindex._get_reindex_args: the keyword arguments sent to client.reindex.
get_reindex_args(source, dest) == Call("reindex", Deref(source), dest, FALSE)

\* Reindex._get_reindex_args, lines 228-233: reindex_args['source'] and
\* reindex_args['dest'] are self.body's own dicts, so the two assignments
\* write into self.body.
body_after_reindex_args(b, source, dest) ==
  [b EXCEPT !.source.index = source, !.dest.index = dest]

Clarified == "Source index must be list of actual indices. It must not be an empty list."

\* Mutant of no_indices_failure: the broad handler takes NoIndices too.
no_indices_reported == Failure("FailedExecution", "")

\* do_action's handler of NoIndices: NoIndices again, with a clearer message.
no_indices_failure == Failure("NoIndices", Clarified)

\* Mutant of ActionFails: the exception leaves do_action as it was raised.
ActionFailsRaw ==
  /\ pc' = "ready"
  /\ result' = Failure("CuratorException", "")
  /\ gen' = <<>>

\* Mutant of ActionFails: the failure is reported inside the loop, which
\* goes on with the next pair.
ActionFailsAndContinues ==
  /\ gen' = Tail(gen)
  /\ pc' = IF Tail(gen) = <<>> THEN "ready" ELSE "dispatch"
  /\ result' = Failure("FailedExecution", "")

\* report_failure(exc) raises FailedExecution.
ActionFails ==
  /\ pc' = "ready"
  /\ result' = Failure("FailedExecution", "")
  /\ gen' = <<>>

\* The for loop asks the generator for the next pair.
NextPair ==
  /\ gen' = Tail(gen)
  /\ IF Tail(gen) = <<>>
     THEN pc' = "ready" /\ result' = Failure("ok", "")
     ELSE pc' = "dispatch" /\ result' = NoResult

\* do_action is entered and the generator is asked for its first pair.
DoActionBegin ==
  /\ pc = "ready"
  /\ runs < MaxRuns
  /\ runs' = runs + 1
  /\ lastop' = "do_action"
  /\ calls' = <<>>
  /\ task_status' = NoTaskData
  /\ task_data' = NoTaskData
  /\ processed' = NotFound
  /\ elapsed' = 0
  /\ cluster' = NoCluster
  /\ LET s == sources(body, migration, opt.mpfx, opt.msfx) IN
       /\ expanded' = Resolved(s.pairs)
       /\ IF s.raised
          THEN /\ pc' = "ready"
               /\ result' = no_indices_failure
               /\ gen' = <<>>
          ELSE /\ pc' = "dispatch"
               /\ result' = NoResult
               /\ gen' = s.pairs
  /\ UNCHANGED <<ilo_indices, body, opt, remote, migration, rconn, dry,
                 orig_source, ilo_at_init, renv>>
  /\ UNCHANGED sc

\* Mutant of waits_for_completion: do_action never waits.
never_waits == FALSE

\* Mutant of waits_for_completion: do_action waits whatever the option.
always_waits == TRUE

\* do_action's branch on self.wfc after a dispatch.
waits_for_completion == opt.wfc

\* client.reindex(**self._get_reindex_args(source, dest)), then the branch
\* on self.wfc.
Dispatch ==
  /\ pc = "dispatch"
  /\ LET p == Head(gen) IN
       /\ body' = body_after_reindex_args(body, p.source, p.dest)
       /\ \E ok \in BOOLEAN :
            IF ~ok
            THEN /\ calls' = Append(calls, get_reindex_args(p.source, p.dest))
                 /\ ActionFails
            ELSE IF waits_for_completion
            THEN /\ calls' = calls \o <<get_reindex_args(p.source, p.dest),
                                        Call("wait_for_it", Str(""), "", FALSE)>>
                 /\ pc' = "wait"
                 /\ UNCHANGED <<gen, result>>
            ELSE /\ calls' = Append(calls, get_reindex_args(p.source, p.dest))
                 /\ NextPair
  /\ task_status' = NoTaskData
  /\ task_data' = NoTaskData
  /\ processed' = NotFound
  /\ cluster' = NoCluster
  /\ elapsed' = 0
  /\ UNCHANGED <<ilo_indices, opt, remote, migration, rconn, lastop, runs, dry,
                 orig_source, ilo_at_init, renv, expanded>>
  /\ UNCHANGED sc

\* Mutant of wait_timed_out: the waiter has no budget.
wait_never_times_out(max_wait, waited) == FALSE

\* Mutant of wait_timed_out: the budget must be exceeded, not reached.
wait_timed_out_late(max_wait, waited) == max_wait # Forever /\ waited > max_wait

\* The task waiter gives up: a finite budget has been reached.
wait_timed_out(max_wait, waited) == max_wait # Forever /\ waited >= max_wait

\* wait_for_it(client, 'reindex', task_id, wait_interval, max_wait): one poll.
Wait ==
  /\ pc = "wait"
  /\ \E done \in BOOLEAN :
       IF done
       THEN \* the task has completed: its status payload and what it left
            \* on the cluster are now what the post-run check will find
            /\ pc' = "check"
            /\ task_status' \in TaskPayloads
            /\ cluster' \in [index : BOOLEAN, alias : BOOLEAN]
            /\ elapsed' = 0
            /\ UNCHANGED <<gen, result>>
       ELSE IF wait_timed_out(opt.max_wait, elapsed)
       THEN ActionFails /\ UNCHANGED <<elapsed, task_status, cluster>>
       ELSE \* the waiter sleeps wait_interval; the model stops counting the
            \* seconds once they are past every budget tried
            /\ elapsed' = IF elapsed <= MaxWait THEN elapsed + opt.wait_interval
                          ELSE elapsed
            /\ UNCHANGED <<pc, gen, result, task_status, cluster>>
  /\ UNCHANGED <<ilo_indices, body, opt, remote, migration, task_data, processed,
                 calls, rconn, lastop, runs, dry, orig_source, ilo_at_init,
                 renv, expanded>>
  /\ UNCHANGED sc

\* Mutant of get_processed_items: a count that is not found counts as 0.
get_processed_items_default_zero(td) ==
  IF td.action = ReindexTaskAction /\ td.has_response THEN td.total ELSE 0

\* Reindex.get_processed_items, from the payload client.tasks.get returned.
get_processed_items(td) ==
  IF td.action = ReindexTaskAction /\ td.has_response THEN td.total ELSE NotFound

\* Mutant of checks_destination: the destination is checked whatever the count.
checks_destination_always(processed_items) == TRUE

\* Whether _post_run_quick_check asks the client about the destination.
checks_destination(processed_items) == processed_items # 0

\* Mutant of destination_missing: "or" for "and".
destination_missing_either(index_exists, alias_instead) == ~index_exists \/ ~alias_instead

\* Whether _post_run_quick_check raises FailedExecution.
destination_missing(index_exists, alias_instead) == ~index_exists /\ ~alias_instead

\* Reindex._post_run_quick_check(dest, task_id).
PostRunCheck ==
  /\ pc = "check"
  /\ LET dest == Head(gen).dest
         get == Call("tasks.get", Str(""), "", FALSE)
     IN \E fetch_ok \in BOOLEAN :
       IF ~fetch_ok
       THEN /\ calls' = Append(calls, get)
            /\ ActionFails
            /\ UNCHANGED <<task_data, processed>>
       ELSE /\ task_data' = task_status
            /\ processed' = get_processed_items(task_data')
            /\ IF ~checks_destination(processed')
               THEN /\ calls' = Append(calls, get)
                    /\ NextPair
               ELSE /\ calls' = calls \o <<get,
                                 Call("indices.exists", Str(""), dest, FALSE),
                                 Call("indices.exists_alias", Str(""), dest, FALSE)>>
                    /\ IF destination_missing(cluster.index, cluster.alias)
                       THEN ActionFails
                       ELSE NextPair
  /\ UNCHANGED <<ilo_indices, body, opt, remote, migration, task_status, cluster,
                 elapsed, rconn, lastop, runs, dry, orig_source, ilo_at_init,
                 renv, expanded>>
  /\ UNCHANGED sc

Next ==
  \/ Construct
  \/ Filter
  \/ DoDryRun
  \/ DoActionBegin
  \/ Dispatch
  \/ Wait
  \/ PostRunCheck


Spec == Init /\ [][Next]_vars

\* The requests without 'remote' and without migration_suffix: do_action
\* reads self.remote only to word a log line (line 284), and the names of
\* the destinations decide nothing of its control flow.
InitLocal == Init /\ body.source.remote = "absent" /\ opt.msfx = ""

\* A poll of the task waiter that finds the task not complete: the waiter
\* gives up or sleeps.
Poll == Wait /\ pc' # "check"

\* do_action is one thread that goes on as long as each client call returns
\* or raises: the dispatch, the waiter's own step and the post-run check are
\* taken when they can be.  That a task completes is not assumed.
SpecLive ==
  /\ InitLocal /\ [][Next]_vars
  /\ WF_vars(Dispatch)
  /\ WF_vars(Poll)
  /\ WF_vars(PostRunCheck)

\* ========================================================== SchemaCheck
\* Text is a sequence of characters.  The characters of a decimal digit.
Digits == <<"0", "1", "2", "3", "4", "5", "6", "7", "8", "9">>
IsDigit(c) == \E d \in DOMAIN Digits : Digits[d] = c
DigitVal(c) == (CHOOSE d \in DOMAIN Digits : Digits[d] = c) - 1

\* A path segment, a dict key or a list index: an int or a str.
IntKey(n) == [int |-> TRUE, n |-> n, s |-> <<>>]
StrKey(cs) == [int |-> FALSE, n |-> 0, s |-> cs]

\* Configuration values: None, a str, a dict, a list.  A dict and a list
\* hold their entries in order, a list under the keys 0, 1, ...
PyNone == [kind |-> "none", text |-> "", items |-> <<>>]
StrVal(s) == [kind |-> "str", text |-> s, items |-> <<>>]
Entry(k, v) == [key |-> k, val |-> v]
DictVal(es) == [kind |-> "dict", text |-> "", items |-> es]
ListVal(vs) ==
  [kind |-> "list", text |-> "",
   items |-> [i \in DOMAIN vs |-> Entry(IntKey(i - 1), vs[i])]]

\* The str values of one character a configuration holds.
LeafTexts == {"x"}
Leaves == {StrVal(s) : s \in LeafTexts} \cup {PyNone}
\* The keys of the dicts: 'a', and '1', a str of digits.
KeyA == StrKey(<<"a">>)
KeyOne == StrKey(<<"1">>)
RECURSIVE ValuesOfDepth(_)
ValuesOfDepth(d) ==
  IF d = 0 THEN Leaves
  ELSE LET V == ValuesOfDepth(d - 1) IN
         Leaves
           \cup {DictVal(<<Entry(k, v)>>) : k \in {KeyA, KeyOne}, v \in V}
           \cup {DictVal(<<Entry(KeyA, StrVal("x")), Entry(KeyOne, v)>>) : v \in V}
           \cup {ListVal(<<v>>) : v \in V}
           \cup {ListVal(<<StrVal("x"), v>>) : v \in V}
\* What is given to SchemaCheck as config: a dict or a list.
Configs == {v \in ValuesOfDepth(MaxPath) : v.kind \in {"dict", "list"}}
PathKeys == {KeyA, KeyOne, IntKey(0), IntKey(1)}
\* The path of a schema error; <<>> when the error carries none (err.errors[0]
\* without a path, or the f'{err}' of line 64).
ErrorPaths == SeqsUpTo(PathKeys, MaxPath)

\* The outcome of a Python expression: a value, or an exception.
Returns(v) == [ok |-> TRUE, val |-> v]
Raises == [ok |-> FALSE, val |-> PyNone]

\* data[key]: KeyError, IndexError and TypeError are Raises; a str of one
\* character is its own element 0.
getitem(data, key) ==
  IF data.kind = "str"
    THEN IF key.int /\ key.n = 0 /\ data.text \in LeafTexts
           THEN Returns(data) ELSE Raises
    ELSE LET hits == {i \in DOMAIN data.items : data.items[i].key = key} IN
           IF hits = {} THEN Raises
           ELSE Returns(data.items[CHOOSE i \in hits : TRUE].val)

\* repr of an int (not negative) and of a path segment.
RECURSIVE IntRepr(_)
IntRepr(n) ==
  IF n < Len(Digits) THEN <<Digits[n + 1]>>
  ELSE IntRepr(n \div Len(Digits)) \o <<Digits[(n % Len(Digits)) + 1]>>
KeyRepr(k) == IF k.int THEN IntRepr(k.n) ELSE <<"'">> \o k.s \o <<"'">>
\* The path as the schema library prints it after "data": ['a'][0]...
RECURSIVE PathRepr(_)
PathRepr(path) ==
  IF path = <<>> THEN <<>>
  ELSE <<"[">> \o KeyRepr(Head(path)) \o <<"]">> \o PathRepr(Tail(path))
\* str(self.error): the message, then " @ data" and the path if there is one.
ErrorMessage == <<"b", "a", "d", " ", "v", "a", "l", "u", "e">>
ErrorStr(path) ==
  IF path = <<>> THEN ErrorMessage
  ELSE ErrorMessage \o <<" ", "@", " ", "d", "a", "t", "a">> \o PathRepr(path)

\* s.split()[-1] for a text that does not end in white space.
RECURSIVE LastWord(_)
LastWord(s) ==
  IF s = <<>> THEN <<>>
  ELSE IF s[Len(s)] = " " THEN <<>>
  ELSE LastWord(SubSeq(s, 1, Len(s) - 1)) \o <<s[Len(s)]>>

\* re.sub(r'[\'\]]', '', data_string)
NotQuoteOrBracket(c) == c \notin {"'", "]"}
\* s.split('[')
RECURSIVE SplitAtBracket(_)
SplitAtBracket(s) ==
  IF s = <<>> THEN << <<>> >>
  ELSE LET r == SplitAtBracket(Tail(s)) IN
         IF Head(s) = "[" THEN << <<>> >> \o r
         ELSE << <<Head(s)>> \o Head(r) >> \o Tail(r)
\* int(k) for a text of digits.
RECURSIVE IntOf(_)
IntOf(k) ==
  IF Len(k) = 1 THEN DigitVal(k[1])
  ELSE IntOf(SubSeq(k, 1, Len(k) - 1)) * Len(Digits) + DigitVal(k[Len(k)])
\* try: key = int(k) except ValueError: key = k
ParseKey(k) ==
  IF k # <<>> /\ \A i \in DOMAIN k : IsDigit(k[i]) THEN IntKey(IntOf(k))
  ELSE StrKey(k)

\* The loop of get_badvalue over elements: value is assigned only while it
\* is None, and always from data.
RECURSIVE badvalue_loop(_, _, _)
badvalue_loop(elements, value, data) ==
  IF elements = <<>> THEN Returns(value)
  ELSE IF value = PyNone
    THEN LET r == getitem(data, ParseKey(Head(elements))) IN
           IF r.ok THEN badvalue_loop(Tail(elements), r.val, data) ELSE Raises
    ELSE badvalue_loop(Tail(elements), value, data)

get_badvalue(data_string, data) ==
  badvalue_loop(Tail(SplitAtBracket(SelectSeq(data_string, NotQuoteOrBracket))),
                PyNone, data)

CouldNotDetermine == StrVal("(could not determine)")

\* __parse_error: self.badvalue for the error whose str is error_str.
parse_error(error_str, config) ==
  IF LastWord(error_str) = <<>> THEN CouldNotDetermine
  ELSE LET r == get_badvalue(LastWord(error_str), config) IN
         IF r.ok THEN r.val ELSE CouldNotDetermine

\* SchemaCheck(config, schema, ...) as __init__ leaves it; the schema is
\* what it does with config: it accepts it, or raises an error with a path.
SchemaChecks ==
  {[pc |-> "new", config |-> c, accepts |-> a, path |-> p,
    badvalue |-> PyNone, raised |-> "none"] :
      c \in Configs, a \in BOOLEAN, p \in ErrorPaths}

\* result()
SchemaCheck_result ==
  /\ sc.pc = "new"
  /\ IF sc.accepts
       THEN sc' = [sc EXCEPT !.pc = "returned"]
       ELSE sc' = [sc EXCEPT !.pc = "raised",
                             !.badvalue = parse_error(ErrorStr(sc.path), sc.config),
                             !.raised = "ConfigurationError"]
  /\ UNCHANGED <<pc, ilo_indices, body, opt, remote, migration, gen, task_status,
                 task_data, processed, cluster, elapsed, calls, rconn, result,
                 lastop, runs, dry, orig_source, ilo_at_init, renv, expanded>>

\* No Reindex is at work.
InitSchema ==
  /\ sc \in {s \in SchemaChecks : ~s.accepts \/ s.path = <<>>}
  /\ pc = "new"
  /\ body = [source |-> [index |-> Str("a"), remote |-> "absent"],
             dest |-> [index |-> "z"]]
  /\ ilo_indices = <<>>
  /\ opt = [wfc |-> FALSE, max_wait |-> Forever, wait_interval |-> 1,
            mpfx |-> "", msfx |-> ""]
  /\ remote = FALSE
  /\ migration = FALSE
  /\ gen = <<>>
  /\ task_status = NoTaskData
  /\ task_data = NoTaskData
  /\ processed = NotFound
  /\ cluster = NoCluster
  /\ elapsed = 0
  /\ calls = <<>>
  /\ rconn = 0
  /\ result = NoResult
  /\ lastop = "none"
  /\ runs = 0
  /\ dry = <<>>
  /\ orig_source = body.source.index
  /\ ilo_at_init = ilo_indices
  /\ renv = NoRemoteEnv
  /\ expanded = <<>>

NextSchema == SchemaCheck_result

SpecSchema == InitSchema /\ [][NextSchema]_vars

\* ================================================================ claims
Constructed == pc \notin {"new", "failed"}

\* What a call of sources() would raise or yield in the current state.
SourcesNow ==
  LET s == sources(body, migration, opt.mpfx, opt.msfx)
  IN [raised |-> s.raised, pairs |-> Resolved(s.pairs)]

\* A step in which do_dry_run or do_action consumes sources().
Consumes == pc = "ready" /\ runs' = runs + 1

\* The pairs the last consumer of sources() was given.
Yielded == IF lastop = "do_dry_run" THEN dry ELSE Resolved(gen)

StoredSource == Deref(body.source.index)

MigrationPairs(q, pfx, sfx) ==
  [i \in 1..Len(q) |-> Pair(Str(q[i]), pfx \o q[i] \o sfx)]

LastCall == calls[Len(calls)]

\* C1: no step of do_dry_run or do_action (any step that is not the caller
\* filtering the IndexList) changes what sources() yields: it stays what it
\* was after construction.
C1_SourcesIsPure ==
  [][(Constructed /\ ilo_indices' = ilo_indices) => SourcesNow' = SourcesNow]_vars

\* C2: for a local, non-migration request given REINDEX_SELECTION, the stored
\* source.index is the IndexList's indices as they were at construction, also
\* after the IndexList has been filtered.
C2_SelectionCaptured ==
  (Constructed /\ IsSelection(orig_source) /\ ~migration /\ ~remote)
    => StoredSource = Lst(ilo_at_init)

\* C3: a request with dest.index MIGRATION, no remote and neither prefix nor
\* suffix is never constructed: __init__ ends in ConfigurationError.
C3_MigrationNeedsNaming ==
  (pc # "new" /\ body.dest.index = MIGRATION /\ body.source.remote = "absent"
     /\ opt.mpfx = "" /\ opt.msfx = "")
    => (pc = "failed" /\ result.kind = "ConfigurationError")

C3_Witness ==
  /\ pc = "failed"
  /\ lastop = "init"
  /\ result.kind = "ConfigurationError"
  /\ body.dest.index = MIGRATION
  /\ body.source.remote = "absent"
  /\ opt.mpfx = "" /\ opt.msfx = ""

\* C4 as stated: in migration mode, consuming sources() over a stored non-empty
\* list [s1..sn] yields exactly the pairs (si, prefix + si + suffix), in order.
C4_MigrationPairsAnyList ==
  [][(Consumes /\ migration /\ StoredSource.kind = "list" /\ StoredSource.val # <<>>)
       => (result'.kind # "NoIndices"
           /\ Yielded' = MigrationPairs(StoredSource.val, opt.mpfx, opt.msfx))]_vars

\* C4 amended: the same, for every stored non-empty list other than
\* ['REINDEX_SELECTED'], which sources() refuses with NoIndices.
C4_MigrationPairs ==
  [][(Consumes /\ migration /\ StoredSource.kind = "list" /\ StoredSource.val # <<>>
        /\ StoredSource.val # <<REINDEX_SELECTED>>)
       => (result'.kind # "NoIndices"
           /\ Yielded' = MigrationPairs(StoredSource.val, opt.mpfx, opt.msfx))]_vars

C4_Witness ==
  /\ lastop = "do_dry_run"
  /\ migration
  /\ opt.mpfx = "p-" /\ opt.msfx = "-s"
  /\ StoredSource = Lst(<<"a", "b">>)
  /\ dry = <<Pair(Str("a"), "p-a-s"), Pair(Str("b"), "p-b-s")>>

\* C5 as stated: outside migration mode, consuming sources() over a non-empty
\* source.index yields the one pair (source.index, dest.index), the source
\* being the stored value as it is (list or scalar).
C5_SinglePairAnySource ==
  [][(Consumes /\ ~migration /\ StoredSource.val # <<>>)
       => (result'.kind # "NoIndices"
           /\ Yielded' = <<Pair(StoredSource, body.dest.index)>>)]_vars

\* C5 amended: the same, for every non-empty source.index other than
\* 'REINDEX_SELECTED' and ['REINDEX_SELECTED'], which sources() refuses.
C5_SinglePair ==
  [][(Consumes /\ ~migration /\ StoredSource.val # <<>>
        /\ StoredSource.val # <<REINDEX_SELECTED>>)
       => (result'.kind # "NoIndices"
           /\ Yielded' = <<Pair(StoredSource, body.dest.index)>>)]_vars

C5_Witness ==
  /\ lastop = "do_dry_run"
  /\ ~migration
  /\ StoredSource = Lst(<<"a", "b">>)
  /\ dry = <<Pair(Lst(<<"a", "b">>), "z")>>

\* C6: consuming sources() over a stored empty list ends in NoIndices and
\* yields no pair, in migration mode and outside it.
C6_EmptyListRaises ==
  [][(Consumes /\ StoredSource = Lst(<<>>))
       => (result'.kind = "NoIndices" /\ Yielded' = <<>> /\ pc' = "ready")]_vars

C6_Witness ==
  /\ lastop = "do_dry_run"
  /\ migration
  /\ StoredSource = Lst(<<>>)
  /\ result.kind = "NoIndices"
  /\ dry = <<>>

\* C7: do_action over an empty source selection ends at once in NoIndices
\* with the clarified message, not in FailedExecution, and has called the
\* client for nothing.
C7_EmptySelectionNoIndices ==
  [][(Consumes /\ lastop' = "do_action" /\ ensure_list(StoredSource) = <<>>)
       => (result' = Failure("NoIndices", Clarified) /\ calls' = <<>>
           /\ pc' = "ready")]_vars

C7_Witness ==
  /\ lastop = "do_action"
  /\ pc = "ready"
  /\ IsSelection(orig_source)
  /\ ensure_list(StoredSource) = <<>>
  /\ result = Failure("NoIndices", Clarified)
  /\ calls = <<>>

\* C8: every reindex request sent to the client carries
\* wait_for_completion = False.
C8_WireNeverWaits ==
  \A i \in DOMAIN calls : calls[i].op = "reindex" => calls[i].wait_for_completion = FALSE

C8_Witness ==
  /\ opt.wfc
  /\ migration
  /\ Len(calls) > 3
  /\ \E i, j \in DOMAIN calls :
       i < j /\ calls[i].op = "reindex" /\ calls[j].op = "reindex"

\* C9: when the payload tasks.get returned has no 'response', the count is
\* -1 and the post-run check has asked the client whether the destination
\* exists as index and as alias, failing the run when it exists as neither.
C9_UnknownCountStillChecked ==
  (lastop = "do_action" /\ task_data.fetched /\ ~task_data.has_response)
    => /\ processed = NotFound
       /\ Len(calls) >= 3
       /\ calls[Len(calls) - 1].op = "indices.exists"
       /\ LastCall.op = "indices.exists_alias"
       /\ (result.kind = "FailedExecution") <=> (~cluster.index /\ ~cluster.alias)

C9_Witness ==
  /\ lastop = "do_action"
  /\ task_data.fetched /\ ~task_data.has_response
  /\ task_data.action = ReindexTaskAction
  /\ processed = NotFound
  /\ LastCall.op = "indices.exists_alias"
  /\ result.kind = "FailedExecution"

\* C10: when the count is exactly 0 the post-run check asks the client for
\* nothing after tasks.get and does not fail, whether or not the destination
\* exists.
C10_ZeroCountSkipsCheck ==
  (lastop = "do_action" /\ task_data.fetched /\ processed = 0)
    => (LastCall.op = "tasks.get" /\ result.kind # "FailedExecution")

C10_Witness ==
  /\ lastop = "do_action"
  /\ task_data.fetched /\ processed = 0
  /\ ~cluster.index /\ ~cluster.alias
  /\ LastCall.op = "tasks.get"
  /\ result.kind = "ok"

\* C11: a remote descriptor without 'host' ends __init__ in ConfigurationError
\* with no remote connection built and nothing asked of the remote cluster,
\* whatever source.index is.
C11_MissingHostFailsFirst ==
  (pc # "new" /\ body.source.remote = "nohost")
    => (pc = "failed" /\ result.kind = "ConfigurationError" /\ rconn = 0
        /\ ~renv.tried)

C11_Witness ==
  /\ pc = "failed"
  /\ body.source.remote = "nohost"
  /\ IsSelection(body.source.index)
  /\ result.kind = "ConfigurationError"
  /\ rconn = 0

\* C12: whichever step of do_action's loop breaks (the dispatch, the wait,
\* the fetch of the task status, the check of the destination), do_action
\* ends in FailedExecution.
C12_OneFailureKind ==
  [][(pc \in {"dispatch", "wait", "check"} /\ pc' = "ready" /\ result'.kind # "ok")
       => result'.kind = "FailedExecution"]_vars

C12_Witness ==
  /\ lastop = "do_action"
  /\ pc = "ready"
  /\ calls # <<>>
  /\ LastCall.op = "tasks.get"
  /\ ~task_data.fetched
  /\ result.kind = "FailedExecution"

IsReindex(c) == c.op = "reindex"
IsWait(c) == c.op = "wait_for_it"
Reindexes == SelectSeq(calls, IsReindex)

\* C13: once do_action has failed, the client is called for nothing more in
\* that run: no pair after the failing one is dispatched.
C13_FailureEndsRun ==
  [][(lastop = "do_action" /\ result.kind = "FailedExecution" /\ runs' = runs)
       => (calls' = calls /\ pc' = "ready")]_vars

C13_Witness ==
  /\ lastop = "do_action"
  /\ pc = "ready"
  /\ migration
  /\ result.kind = "FailedExecution"
  /\ Len(expanded) = 2
  /\ Len(Reindexes) = 1

\* C14: with a finite max_wait, a poll that finds the task not complete
\* either fails the run, and then the budget has been reached and the
\* post-run check is not made, or adds wait_interval to the time waited,
\* which was below the budget: the waiter neither gives up early nor polls
\* without end, and it returns normally only for a completed task.
C14_WaitBudget ==
  [][(pc = "wait" /\ opt.max_wait # Forever)
       => /\ pc' \in {"wait", "check", "ready"}
          /\ pc' = "ready"
               => (elapsed >= opt.max_wait /\ result'.kind = "FailedExecution"
                   /\ calls' = calls /\ task_data' = NoTaskData)
          /\ pc' = "wait"
               => (elapsed < opt.max_wait
                   /\ elapsed' = elapsed + opt.wait_interval)
          /\ pc' = "check" => task_status'.fetched]_vars

C14_Witness ==
  /\ lastop = "do_action"
  /\ pc = "ready"
  /\ opt.max_wait = MaxWait
  /\ elapsed = opt.max_wait
  /\ calls # <<>>
  /\ LastCall.op = "wait_for_it"
  /\ result.kind = "FailedExecution"

\* C17: with wait_for_completion true the pairs are dispatched in the order
\* of the expansion, each once; a pair is dispatched only after the check of
\* the one before it, every dispatched task is waited for at once, and no
\* pair is dispatched while another is waited for or checked.
C17_OnePairAtATime ==
  opt.wfc =>
    /\ Len(Reindexes) <= Len(expanded)
    /\ \A k \in 1..Len(Reindexes) :
         /\ Reindexes[k].source = expanded[k].source
         /\ Reindexes[k].dest = expanded[k].dest
    /\ \A i \in DOMAIN calls :
         /\ (IsReindex(calls[i]) /\ i > 1)
              => calls[i - 1].op \in {"tasks.get", "indices.exists_alias"}
         /\ IsWait(calls[i]) => (i > 1 /\ IsReindex(calls[i - 1]))
         /\ (IsReindex(calls[i]) /\ i < Len(calls)) => IsWait(calls[i + 1])
    /\ pc \in {"wait", "check"} => Len(Reindexes) + Len(gen) = Len(expanded) + 1

C17_Witness ==
  /\ opt.wfc
  /\ pc = "check"
  /\ Len(expanded) = 2
  /\ Len(Reindexes) = 2
  /\ gen = <<Pair(Str("b"), "p-b")>>

\* C18: with wait_for_completion false do_action never waits and never
\* checks: the client is only asked to reindex, and a run whose dispatches
\* all succeed has sent one request per pair of the expansion, in order, and
\* ends without failure.
C18_NoWaitNoCheck ==
  ~opt.wfc =>
    /\ pc \notin {"wait", "check"}
    /\ \A i \in DOMAIN calls : IsReindex(calls[i])
    /\ ~task_data.fetched
    /\ (lastop = "do_action" /\ pc = "ready" /\ result.kind = "ok")
         => /\ Len(calls) = Len(expanded)
            /\ \A k \in 1..Len(calls) :
                 /\ calls[k].source = expanded[k].source
                 /\ calls[k].dest = expanded[k].dest
    /\ (lastop = "do_action" /\ pc = "ready" /\ Len(calls) = Len(expanded)
          /\ Len(calls) > 0)
         => result.kind \in {"ok", "FailedExecution"}

C18_Witness ==
  /\ ~opt.wfc
  /\ lastop = "do_action"
  /\ pc = "ready"
  /\ result.kind = "ok"
  /\ Len(calls) = 2
  /\ cluster = NoCluster

\* C19: when the count is not 0 the post-run check fails the run exactly
\* when the destination exists neither as index nor as alias.
C19_FailsIffMissing ==
  (lastop = "do_action" /\ task_data.fetched /\ processed # 0)
    => ((result.kind = "FailedExecution") <=> (~cluster.index /\ ~cluster.alias))

C19_Witness ==
  /\ lastop = "do_action"
  /\ task_data.fetched /\ processed = 5
  /\ ~cluster.index /\ cluster.alias
  /\ result.kind = "ok"

\* C20: when __init__ turns to the remote cluster for REINDEX_SELECTION and
\* the connection cannot be built, the indices cannot be fetched or filtered,
\* or the filters leave nothing, it ends in FailedExecution and the body
\* keeps the token: no action is constructed.
C20_RemoteSelectionFailure ==
  (pc # "new" /\ renv.tried
     /\ (~renv.conn_ok \/ ~renv.fetch_ok \/ renv.rio = <<>>))
    => (pc = "failed" /\ result.kind = "FailedExecution")

C20_Witness ==
  /\ pc = "failed"
  /\ remote
  /\ IsSelection(body.source.index)
  /\ renv.tried /\ renv.conn_ok /\ renv.fetch_ok /\ renv.rio = <<>>
  /\ result.kind = "FailedExecution"

\* config[p1][p2]...[pn], when every segment resolves.
RECURSIVE ValueAt(_, _)
ValueAt(data, path) ==
  IF path = <<>> THEN Returns(data)
  ELSE LET r == getitem(data, Head(path)) IN
         IF r.ok THEN ValueAt(r.val, Tail(path)) ELSE Raises

\* C15: when the schema's error has a path into config, the bad value that
\* result() reports is the value at the end of that path.
C15_BadValueAtFullPath ==
  (sc.pc = "raised" /\ sc.path # <<>> /\ ValueAt(sc.config, sc.path).ok)
    => sc.badvalue = ValueAt(sc.config, sc.path).val

\* C16: when the schema's error has no path, or a path that config does not
\* have, the bad value that result() reports is '(could not determine)'.
C16_UnresolvedPathGivesMarker ==
  (sc.pc = "raised" /\ (sc.path = <<>> \/ ~ValueAt(sc.config, sc.path).ok))
    => sc.badvalue = CouldNotDetermine

\* C21: a remote connection is built only by __init__, for a remote request
\* whose source.index is REINDEX_SELECTION, and every call that do_action
\* makes (reindex, the wait, tasks.get, the existence queries) goes through
\* the client of the IndexList.
C21_RemoteConnectionOnlySelects ==
  [][/\ rconn' # rconn
          => (pc = "new" /\ body.source.remote # "absent"
              /\ IsSelection(body.source.index) /\ rconn' = rconn + 1)
     /\ \A i \in DOMAIN calls' : calls'[i].client = "primary"]_vars

C21_Witness ==
  /\ lastop = "do_action"
  /\ pc = "ready"
  /\ remote
  /\ IsSelection(orig_source)
  /\ rconn = 1
  /\ result.kind = "ok"
  /\ Len(calls) > Len(Reindexes) + 1
  /\ \A i \in DOMAIN calls : calls[i].client = "primary"

\* C22: do_dry_run makes no client call, logs each pair of the expansion
\* once, in order, and leaves self.body, and with it what sources() yields
\* to the do_action that follows, as it was.
C22_DryRunChangesNothing ==
  [][(pc = "ready" /\ lastop' = "do_dry_run" /\ runs' = runs + 1)
       => /\ calls' = calls
          /\ body' = body
          /\ dry' = SourcesNow.pairs
          /\ SourcesNow' = SourcesNow
          /\ pc' = "ready"]_vars

C22_Witness ==
  /\ lastop = "do_action"
  /\ runs = MaxRuns
  /\ migration
  /\ Len(dry) = MaxLen
  /\ expanded = dry
  /\ Len(Reindexes) = Len(dry)

\* C23: a constructed local migration action yields, and dispatches, only
\* pairs whose dest is another name than the source.
C23_MigrationNeverOntoItself ==
  (Constructed /\ migration /\ ~remote)
    => /\ \A i \in DOMAIN SourcesNow.pairs :
            SourcesNow.pairs[i].source # Str(SourcesNow.pairs[i].dest)
       /\ \A i \in DOMAIN calls :
            IsReindex(calls[i]) => calls[i].source # Str(calls[i].dest)

C23_Witness ==
  /\ Constructed /\ migration /\ ~remote
  /\ opt.mpfx = "" /\ opt.msfx = "-s"
  /\ calls # <<>>
  /\ IsReindex(LastCall)
  /\ LastCall.source = Str("a") /\ LastCall.dest = "a-s"

\* Whether a source.index value is, or holds, the REINDEX_SELECTION token.
CarriesToken(v) ==
  \/ v = Str(REINDEX_SELECTION)
  \/ \E i \in DOMAIN v.val : v.val[i] = REINDEX_SELECTION

\* C24: an action constructed from source.index 'REINDEX_SELECTION' stores
\* a list of index names in its place, and no request that do_action sends
\* carries the token.
C24_TokenReplaced ==
  (Constructed /\ IsSelection(orig_source))
    => /\ ~CarriesToken(StoredSource)
       /\ runs = 0 => body.source.index.kind \in {"ilo", "list"}
       /\ \A i \in DOMAIN calls :
            IsReindex(calls[i]) => ~CarriesToken(calls[i].source)

C24_Witness ==
  /\ Constructed /\ IsSelection(orig_source)
  /\ remote
  /\ lastop = "do_action"
  /\ calls # <<>>
  /\ IsReindex(LastCall)
  /\ LastCall.source = Lst(<<"a", "b">>)

\* A do_action is under way.
Running == pc \in {"dispatch", "wait", "check"}

\* C25: a do_action that does not wait, or waits with a finite max_wait,
\* ends, whether or not its tasks complete; with max_wait -1 nothing but
\* the completion of the task ends a wait.
C25_TerminatesUnlessWaitingForever ==
  /\ (Running /\ (~opt.wfc \/ opt.max_wait # Forever)) ~> (pc = "ready")
  /\ [][(pc = "wait" /\ opt.max_wait = Forever /\ pc' # "wait")
          => (pc' = "check" /\ task_status'.fetched)]_vars

C25_Witness ==
  /\ pc = "wait"
  /\ opt.wfc
  /\ opt.max_wait = Forever
  /\ elapsed > MaxWait
  /\ calls # <<>>
  /\ LastCall.op = "wait_for_it"
====
